---- MODULE Spec2Model ----
(***************************************************************************)
(* Model of VectorExtensions::monotonic_prop (src/src/vector_extensions.rs) *)
(* for one-dimensional ndarray arrays and views.                            *)
(*                                                                          *)
(* A call is modelled step by step: Call (length guard, start of the        *)
(* try_fold), Step (one windows(2) item through the fold closure), Return   *)
(* (unwrap_or and the final `if let`).  Spec runs a single caller over one  *)
(* array; SpecConc runs several callers over several arrays.                *)
(***************************************************************************)
EXTENDS Integers, Sequences, FiniteSets, TLC

\* ---------------------------------------------------------------------------
\* Bounds of the model
\* ---------------------------------------------------------------------------
MaxVal == 2
MaxLen == 5
ConcMaxLen == 3

\* ---------------------------------------------------------------------------
\* Elements: T: PartialOrd.  NaN stands for an element that is incomparable
\* with every element (itself included), as f64::NAN is.
\* ---------------------------------------------------------------------------
NaN == -1

Values == (0..MaxVal) \cup {NaN}

\* SpecConc draws its elements from two distinct comparable values: they give
\* every outcome (less, equal, greater) of an adjacent pair
ConcValues == {0, 1}

Lt(a, b) == a # NaN /\ b # NaN /\ a < b

Eq(a, b) == a # NaN /\ b # NaN /\ a = b

Gt(a, b) == a # NaN /\ b # NaN /\ a > b

\* ---------------------------------------------------------------------------
\* enum Monotonic, enum State, and the Result of the try_fold closure
\* ---------------------------------------------------------------------------
Rising(strict) == [kind |-> "Rising", strict |-> strict]

Falling(strict) == [kind |-> "Falling", strict |-> strict]

NotMonotonic == [kind |-> "NotMonotonic"]

\* the caller's slot for the returned value, before the call has returned
NoResult == [kind |-> "None"]

Monotonic == {Rising(s) : s \in BOOLEAN} \cup {Falling(s) : s \in BOOLEAN} \cup {NotMonotonic}

StateInit == [tag |-> "Init"]

NotStrict == [tag |-> "NotStrict"]

Known(m) == [tag |-> "Known", m |-> m]

Ok(st) == [res |-> "Ok", val |-> st]

Err(e) == [res |-> "Err", val |-> e]

Panic == [res |-> "Panic"]

\* ---------------------------------------------------------------------------
\* Arrays and views
\* ---------------------------------------------------------------------------
Threads == {1, 2}

MainThread == 1

Arrays == {1, 2}

MainArray == 1

\* "owned": the array itself; "fwd": slice(s![..;1]); "rev": slice(s![..;-1])
Views == {"owned", "fwd", "rev"}

SeqsUpTo(n, S) == UNION {[1..k -> S] : k \in 0..n}

Reverse(s) == [i \in 1..Len(s) |-> s[Len(s) + 1 - i]]

\* the elements of a view of array contents s, in traversal order
Elements(s, v) == IF v = "rev" THEN Reverse(s) ELSE s

\* windows(2): number of windows and the i-th window (i from 0)
NumWindows(s) == IF Len(s) >= 2 THEN Len(s) - 1 ELSE 0

Window(s, i) == <<s[i + 1], s[i + 2]>>

\* items.get(k): Some(x) as <<x>>, None as <<>>
Get(items, k) == IF k < Len(items) THEN <<items[k + 1]>> ELSE <<>>

\* ---------------------------------------------------------------------------
\* The closure of the try_fold: one adjacent pair (a, b) in state st
\* ---------------------------------------------------------------------------
\* Variants of the closure, each with one arm changed as a slip would change it
TransitionArms(st, a, b) ==
    CASE st = StateInit ->
           IF Lt(a, b) THEN Ok(Known(Rising(TRUE)))
           ELSE IF Eq(a, b) THEN Ok(NotStrict)
           ELSE Ok(Known(Falling(TRUE)))
      [] st = NotStrict ->
           IF Lt(a, b) THEN Ok(Known(Rising(FALSE)))
           ELSE IF Eq(a, b) THEN Ok(NotStrict)
           ELSE Ok(Known(Falling(FALSE)))
      [] st.tag = "Known" /\ st.m.kind = "Rising" ->
           IF Eq(a, b) THEN Ok(Known(Rising(FALSE)))
           ELSE IF Lt(a, b) THEN Ok(Known(Rising(st.m.strict)))
           ELSE Err(NotMonotonic)
      [] st.tag = "Known" /\ st.m.kind = "Falling" ->
           IF Eq(a, b) THEN Ok(Known(Falling(FALSE)))
           ELSE IF Gt(a, b) THEN Ok(Known(Falling(st.m.strict)))
           ELSE Err(NotMonotonic)
      [] OTHER -> Panic

\* Known(Rising): an equal pair leaves the strictness as it is
TransitionKeepsStrict(st, a, b) ==
    IF st.tag = "Known" /\ st.m.kind = "Rising" /\ Eq(a, b) THEN Ok(st)
    ELSE TransitionArms(st, a, b)

\* NotStrict: a rising pair gives strict: true, as in the Init arm
TransitionForgetsPlateau(st, a, b) ==
    IF st = NotStrict /\ Lt(a, b) THEN Ok(Known(Rising(TRUE)))
    ELSE TransitionArms(st, a, b)

\* Known(Rising): a falling pair switches the direction instead of Err
TransitionSwitches(st, a, b) ==
    IF st.tag = "Known" /\ st.m.kind = "Rising" /\ Gt(a, b)
    THEN Ok(Known(Falling(FALSE)))
    ELSE TransitionArms(st, a, b)

\* Known(Falling): an equal pair is taken for a contradiction
TransitionFallingNoTie(st, a, b) ==
    IF st.tag = "Known" /\ st.m.kind = "Falling" /\ Eq(a, b) THEN Err(NotMonotonic)
    ELSE TransitionArms(st, a, b)

\* Known(Rising): a rising pair sets strict: true again
TransitionUpgrades(st, a, b) ==
    IF st.tag = "Known" /\ st.m.kind = "Rising" /\ Lt(a, b) THEN Ok(Known(Rising(TRUE)))
    ELSE TransitionArms(st, a, b)

\* Known(Falling): a rising pair turns the direction to Rising
TransitionTurnsUp(st, a, b) ==
    IF st.tag = "Known" /\ st.m.kind = "Falling" /\ Lt(a, b) THEN Ok(Known(Rising(FALSE)))
    ELSE TransitionArms(st, a, b)

\* Init, NotStrict: a pair that is neither <, == nor > is rejected
TransitionRejectsIncomparable(st, a, b) ==
    IF st \in {StateInit, NotStrict} /\ ~Lt(a, b) /\ ~Eq(a, b) /\ ~Gt(a, b)
    THEN Err(NotMonotonic)
    ELSE TransitionArms(st, a, b)

Transition(st, a, b) ==
    CASE st = StateInit ->
           IF Lt(a, b) THEN Ok(Known(Rising(TRUE)))
           ELSE IF Eq(a, b) THEN Ok(NotStrict)
           ELSE Ok(Known(Falling(TRUE)))
      [] st = NotStrict ->
           IF Lt(a, b) THEN Ok(Known(Rising(FALSE)))
           ELSE IF Eq(a, b) THEN Ok(NotStrict)
           ELSE Ok(Known(Falling(FALSE)))
      [] st.tag = "Known" /\ st.m.kind = "Rising" ->
           IF Eq(a, b) THEN Ok(Known(Rising(FALSE)))
           ELSE IF Lt(a, b) THEN Ok(Known(Rising(st.m.strict)))
           ELSE Err(NotMonotonic)
      [] st.tag = "Known" /\ st.m.kind = "Falling" ->
           IF Eq(a, b) THEN Ok(Known(Falling(FALSE)))
           ELSE IF Gt(a, b) THEN Ok(Known(Falling(st.m.strict)))
           ELSE Err(NotMonotonic)
      [] OTHER -> Panic

\* the closure applied to a window: the two get(..).unwrap_or_else(unreachable)
Closure(st, items) ==
    IF Get(items, 0) = <<>> \/ Get(items, 1) = <<>> THEN Panic
    ELSE Transition(st, Get(items, 0)[1], Get(items, 1)[1])

\* .unwrap_or(Known(NotMonotonic)) on the try_fold's Result
UnwrapOr(r) == IF r.res = "Ok" THEN r.val ELSE Known(NotMonotonic)

\* variant: a flat pass (NotStrict) is reported as Rising { strict: false }
FinalMappingFlat(st) ==
    IF st.tag = "Known" THEN st.m
    ELSE IF st = NotStrict THEN Rising(FALSE) ELSE NotMonotonic

\* if let Known(state) = state { state } else { NotMonotonic }
FinalMapping(st) == IF st.tag = "Known" THEN st.m ELSE NotMonotonic

\* variant: a sequence without adjacent pairs is reported as strictly rising
BaseCaseTrivial == Rising(TRUE)

\* the value of the early return
BaseCase == NotMonotonic

\* self.len() <= 1
LenGuard(n) == n <= 1

\* The call as a function of the traversed sequence: the try_fold run to its
\* end from window i with accumulator r, and monotonic_prop as a whole
RECURSIVE TryFold(_, _, _)
TryFold(s, i, r) ==
    IF r.res # "Ok" \/ i >= NumWindows(s) THEN r
    ELSE TryFold(s, i + 1, Closure(r.val, Window(s, i)))

monotonic_prop(s) ==
    IF LenGuard(Len(s)) THEN BaseCase
    ELSE LET r == TryFold(s, 0, Ok(StateInit))
         IN IF r = Panic THEN Panic ELSE FinalMapping(UnwrapOr(r))

\* ---------------------------------------------------------------------------
\* State
\* ---------------------------------------------------------------------------
VARIABLES
    arr,        \* arr[k]: contents of array k
    pc,         \* pc[p]: "idle", "fold", "done", "panicked"
    tgt,        \* tgt[p]: the array the call of p is on
    view,       \* view[p]: the view of tgt[p] the call is made through
    idx,        \* idx[p]: index of the next window of the iterator
    acc,        \* acc[p]: accumulator of the try_fold (a Result)
    result,     \* result[p]: the Monotonic the call of p returned
    snap,       \* snap[p]: contents of tgt[p] when the call started
    examined    \* examined[p]: indices of the windows given to the closure

vars == <<arr, pc, tgt, view, idx, acc, result, snap, examined>>

\* the sequence thread p's call traverses
Self(p) == Elements(arr[tgt[p]], view[p])

InitThreads ==
    /\ pc = [p \in Threads |-> "idle"]
    /\ tgt = [p \in Threads |-> MainArray]
    /\ view = [p \in Threads |-> "owned"]
    /\ idx = [p \in Threads |-> 0]
    /\ acc = [p \in Threads |-> Ok(StateInit)]
    /\ result = [p \in Threads |-> NoResult]
    /\ snap = [p \in Threads |-> <<>>]
    /\ examined = [p \in Threads |-> <<>>]

Init ==
    /\ \E s \in SeqsUpTo(MaxLen, Values) :
          arr = [k \in Arrays |-> IF k = MainArray THEN s ELSE <<>>]
    /\ InitThreads

InitConc ==
    /\ arr \in [Arrays -> SeqsUpTo(ConcMaxLen, ConcValues)]
    /\ InitThreads

\* ---------------------------------------------------------------------------
\* Actions
\* ---------------------------------------------------------------------------
\* variant: the fold's accumulator outlives the call (a static State)
CallKeepsState(p, k, v) ==
    /\ pc[p] \in {"idle", "done"}
    /\ tgt' = [tgt EXCEPT ![p] = k]
    /\ view' = [view EXCEPT ![p] = v]
    /\ snap' = [snap EXCEPT ![p] = arr[k]]
    /\ examined' = [examined EXCEPT ![p] = <<>>]
    /\ idx' = [idx EXCEPT ![p] = 0]
    /\ UNCHANGED acc
    /\ IF LenGuard(Len(Elements(arr[k], v)))
       THEN /\ pc' = [pc EXCEPT ![p] = "done"]
            /\ result' = [result EXCEPT ![p] = BaseCase]
       ELSE /\ pc' = [pc EXCEPT ![p] = "fold"]
            /\ result' = [result EXCEPT ![p] = NoResult]
    /\ UNCHANGED arr

\* p calls monotonic_prop on view v of array k: the length guard, and the
\* creation of the windows iterator and of the fold's accumulator
Call(p, k, v) ==
    /\ pc[p] \in {"idle", "done"}
    /\ tgt' = [tgt EXCEPT ![p] = k]
    /\ view' = [view EXCEPT ![p] = v]
    /\ snap' = [snap EXCEPT ![p] = arr[k]]
    /\ examined' = [examined EXCEPT ![p] = <<>>]
    /\ idx' = [idx EXCEPT ![p] = 0]
    /\ acc' = [acc EXCEPT ![p] = Ok(StateInit)]
    /\ IF LenGuard(Len(Elements(arr[k], v)))
       THEN /\ pc' = [pc EXCEPT ![p] = "done"]
            /\ result' = [result EXCEPT ![p] = BaseCase]
       ELSE /\ pc' = [pc EXCEPT ![p] = "fold"]
            /\ result' = [result EXCEPT ![p] = NoResult]
    /\ UNCHANGED arr

\* variant: a plain fold over unwrap_or'ed states, without the short circuit
StepPlainFold(p) ==
    /\ pc[p] = "fold"
    /\ idx[p] < NumWindows(Self(p))
    /\ LET r == Closure(UnwrapOr(acc[p]), Window(Self(p), idx[p]))
       IN IF r = Panic
          THEN /\ pc' = [pc EXCEPT ![p] = "panicked"]
               /\ UNCHANGED acc
          ELSE /\ acc' = [acc EXCEPT ![p] = Ok(UnwrapOr(r))]
               /\ UNCHANGED pc
    /\ examined' = [examined EXCEPT ![p] = Append(@, idx[p])]
    /\ idx' = [idx EXCEPT ![p] = @ + 1]
    /\ UNCHANGED <<arr, tgt, view, result, snap>>

\* variant: a pair found out of order is swapped in place
StepWrites(p) ==
    /\ pc[p] = "fold"
    /\ acc[p].res = "Ok"
    /\ idx[p] < NumWindows(Self(p))
    /\ LET r == Closure(acc[p].val, Window(Self(p), idx[p]))
       IN IF r = Panic
          THEN /\ pc' = [pc EXCEPT ![p] = "panicked"]
               /\ UNCHANGED acc
          ELSE /\ acc' = [acc EXCEPT ![p] = r]
               /\ UNCHANGED pc
    /\ LET w == Window(Self(p), idx[p])
           n == Len(arr[tgt[p]])
           i == IF view[p] = "rev" THEN n - idx[p] ELSE idx[p] + 1
           j == IF view[p] = "rev" THEN n - idx[p] - 1 ELSE idx[p] + 2
       IN arr' = IF Gt(w[1], w[2])
                 THEN [arr EXCEPT ![tgt[p]][i] = w[2], ![tgt[p]][j] = w[1]]
                 ELSE arr
    /\ examined' = [examined EXCEPT ![p] = Append(@, idx[p])]
    /\ idx' = [idx EXCEPT ![p] = @ + 1]
    /\ UNCHANGED <<tgt, view, result, snap>>

\* variant: one accumulator cell shared by all callers
StepSharedAcc(p) ==
    /\ pc[p] = "fold"
    /\ acc[p].res = "Ok"
    /\ idx[p] < NumWindows(Self(p))
    /\ LET r == Closure(acc[p].val, Window(Self(p), idx[p]))
       IN IF r = Panic
          THEN /\ pc' = [pc EXCEPT ![p] = "panicked"]
               /\ UNCHANGED acc
          ELSE /\ acc' = [q \in Threads |-> r]
               /\ UNCHANGED pc
    /\ examined' = [examined EXCEPT ![p] = Append(@, idx[p])]
    /\ idx' = [idx EXCEPT ![p] = @ + 1]
    /\ UNCHANGED <<arr, tgt, view, result, snap>>

\* variant: the iterator yields every second window only
StepSkips(p) ==
    /\ pc[p] = "fold"
    /\ acc[p].res = "Ok"
    /\ idx[p] < NumWindows(Self(p))
    /\ LET r == Closure(acc[p].val, Window(Self(p), idx[p]))
       IN IF r = Panic
          THEN /\ pc' = [pc EXCEPT ![p] = "panicked"]
               /\ UNCHANGED acc
          ELSE /\ acc' = [acc EXCEPT ![p] = r]
               /\ UNCHANGED pc
    /\ examined' = [examined EXCEPT ![p] = Append(@, idx[p])]
    /\ idx' = [idx EXCEPT ![p] = @ + 2]
    /\ UNCHANGED <<arr, tgt, view, result, snap>>

\* variant: a loop without the break: after an Err the remaining windows are
\* still taken from the iterator, the Err being kept
StepContinues(p) ==
    /\ pc[p] = "fold"
    /\ idx[p] < NumWindows(Self(p))
    /\ LET r == IF acc[p].res = "Ok"
                THEN Closure(acc[p].val, Window(Self(p), idx[p]))
                ELSE acc[p]
       IN IF r = Panic
          THEN /\ pc' = [pc EXCEPT ![p] = "panicked"]
               /\ UNCHANGED acc
          ELSE /\ acc' = [acc EXCEPT ![p] = r]
               /\ UNCHANGED pc
    /\ examined' = [examined EXCEPT ![p] = Append(@, idx[p])]
    /\ idx' = [idx EXCEPT ![p] = @ + 1]
    /\ UNCHANGED <<arr, tgt, view, result, snap>>

\* one iteration of the try_fold: the next window goes through the closure
Step(p) ==
    /\ pc[p] = "fold"
    /\ acc[p].res = "Ok"
    /\ idx[p] < NumWindows(Self(p))
    /\ LET r == Closure(acc[p].val, Window(Self(p), idx[p]))
       IN IF r = Panic
          THEN /\ pc' = [pc EXCEPT ![p] = "panicked"]
               /\ UNCHANGED acc
          ELSE /\ acc' = [acc EXCEPT ![p] = r]
               /\ UNCHANGED pc
    /\ examined' = [examined EXCEPT ![p] = Append(@, idx[p])]
    /\ idx' = [idx EXCEPT ![p] = @ + 1]
    /\ UNCHANGED <<arr, tgt, view, result, snap>>

\* variant: the return happens only when the iterator is exhausted
ReturnWhenExhausted(p) ==
    /\ pc[p] = "fold"
    /\ idx[p] >= NumWindows(Self(p))
    /\ result' = [result EXCEPT ![p] = FinalMapping(UnwrapOr(acc[p]))]
    /\ pc' = [pc EXCEPT ![p] = "done"]
    /\ UNCHANGED <<arr, tgt, view, idx, acc, snap, examined>>

\* the try_fold is over (iterator exhausted, or the closure returned Err):
\* unwrap_or, the final mapping, and the return to the caller
Return(p) ==
    /\ pc[p] = "fold"
    /\ acc[p].res = "Err" \/ idx[p] >= NumWindows(Self(p))
    /\ result' = [result EXCEPT ![p] = FinalMapping(UnwrapOr(acc[p]))]
    /\ pc' = [pc EXCEPT ![p] = "done"]
    /\ UNCHANGED <<arr, tgt, view, idx, acc, snap, examined>>

Next ==
    \/ \E v \in Views : Call(MainThread, MainArray, v)
    \/ Step(MainThread)
    \/ Return(MainThread)

NextConc ==
    \/ \E p \in Threads, k \in Arrays, v \in Views : Call(p, k, v)
    \/ \E p \in Threads : Step(p)
    \/ \E p \in Threads : Return(p)

Spec == Init /\ [][Next]_vars

SpecConc == InitConc /\ [][NextConc]_vars

\* A call that has started keeps running: the fold takes its next window and
\* the function returns when the fold is over (the caller is free not to call)
SpecLive ==
    /\ Init /\ [][Next]_vars
    /\ WF_vars(Step(MainThread))
    /\ WF_vars(Return(MainThread))

\* ---------------------------------------------------------------------------
\* Vocabulary of the properties: adjacent pairs of a sequence, compared as
\* numbers (independently of Lt, Eq, Gt above)
\* ---------------------------------------------------------------------------
Pairs(s) == 1..(Len(s) - 1)

Comparable(s, i) == s[i] # NaN /\ s[i + 1] # NaN

Less(s, i) == Comparable(s, i) /\ s[i] < s[i + 1]

Equal(s, i) == Comparable(s, i) /\ s[i] = s[i + 1]

Greater(s, i) == Comparable(s, i) /\ s[i] > s[i + 1]

\* every adjacent pair has a definite less/equal/greater outcome
Definite(s) == \A i \in Pairs(s) : Comparable(s, i)

\* the elements are drawn from a totally ordered set
Total(s) == \A i \in 1..Len(s) : s[i] # NaN

Done(p) == pc[p] = "done"

\* Rising <-> Falling with the same strictness, NotMonotonic fixed
Flip(m) ==
    IF m.kind = "Rising" THEN Falling(m.strict)
    ELSE IF m.kind = "Falling" THEN Rising(m.strict)
    ELSE m

\* ---------------------------------------------------------------------------
\* C1: a returned call on a totally ordered sequence of length >= 2 gives
\* Rising{strict:true} if every adjacent pair is a < b, Rising{strict:false}
\* if every pair is a <= b with some a < b and some a == b, and the same for
\* Falling with > and >=.
\* ---------------------------------------------------------------------------
C1_Classification ==
    \A p \in Threads :
        LET s == Self(p) IN
        (Done(p) /\ Len(s) >= 2 /\ Total(s)) =>
            /\ (\A i \in Pairs(s) : Less(s, i)) => result[p] = Rising(TRUE)
            /\ ( /\ \A i \in Pairs(s) : Less(s, i) \/ Equal(s, i)
                 /\ \E i \in Pairs(s) : Less(s, i)
                 /\ \E i \in Pairs(s) : Equal(s, i) ) => result[p] = Rising(FALSE)
            /\ (\A i \in Pairs(s) : Greater(s, i)) => result[p] = Falling(TRUE)
            /\ ( /\ \A i \in Pairs(s) : Greater(s, i) \/ Equal(s, i)
                 /\ \E i \in Pairs(s) : Greater(s, i)
                 /\ \E i \in Pairs(s) : Equal(s, i) ) => result[p] = Falling(FALSE)

\* a call has returned Rising{strict:false} on a sequence that rises, holds a
\* plateau, and rises again
C1_Witness ==
    \E p \in Threads :
        LET s == Self(p) IN
        /\ Done(p) /\ Total(s) /\ Len(s) >= 4
        /\ \A i \in Pairs(s) : Less(s, i) \/ Equal(s, i)
        /\ \E i, j, k \in Pairs(s) : i < j /\ j < k /\ Less(s, i) /\ Equal(s, j) /\ Less(s, k)
        /\ result[p] = Rising(FALSE)

\* ---------------------------------------------------------------------------
\* C2: when a call on a sequence with definite comparisons returns
\* Rising{strict}, every adjacent pair is a <= b and strict holds iff every
\* pair is a < b; symmetrically for Falling{strict} with >= and >.
\* ---------------------------------------------------------------------------
C2_Soundness ==
    \A p \in Threads :
        LET s == Self(p) IN
        (Done(p) /\ Definite(s)) =>
            /\ result[p].kind = "Rising" =>
                 /\ \A i \in Pairs(s) : Less(s, i) \/ Equal(s, i)
                 /\ result[p].strict <=> \A i \in Pairs(s) : Less(s, i)
            /\ result[p].kind = "Falling" =>
                 /\ \A i \in Pairs(s) : Greater(s, i) \/ Equal(s, i)
                 /\ result[p].strict <=> \A i \in Pairs(s) : Greater(s, i)

\* a call has returned Rising{strict:false} on a sequence that starts flat
C2_Witness ==
    \E p \in Threads :
        LET s == Self(p) IN
        /\ Done(p) /\ Definite(s) /\ Len(s) >= 3
        /\ Equal(s, 1) /\ Less(s, 2)
        /\ result[p] = Rising(FALSE)

\* ---------------------------------------------------------------------------
\* C3: a call on a sequence with an adjacent pair a < b and an adjacent pair
\* a > b, in either order and with equal pairs anywhere, returns NotMonotonic.
\* ---------------------------------------------------------------------------
C3_BothDirections ==
    \A p \in Threads :
        LET s == Self(p) IN
        ( /\ Done(p)
          /\ \E i \in Pairs(s) : Less(s, i)
          /\ \E i \in Pairs(s) : Greater(s, i) ) => result[p] = NotMonotonic

\* a call has returned on a sequence that falls, stays equal, then rises
C3_Witness ==
    \E p \in Threads :
        LET s == Self(p) IN
        /\ Done(p)
        /\ \E i, j, k \in Pairs(s) : i < j /\ j < k /\ Greater(s, i) /\ Equal(s, j) /\ Less(s, k)
        /\ result[p] = NotMonotonic

\* ---------------------------------------------------------------------------
\* C4: a call on a sequence of length >= 2 whose adjacent pairs are all equal
\* ends its pass in NotStrict and returns NotMonotonic.
\* ---------------------------------------------------------------------------
C4_Flat ==
    \A p \in Threads :
        LET s == Self(p) IN
        (Done(p) /\ Len(s) >= 2 /\ \A i \in Pairs(s) : Equal(s, i)) =>
            /\ acc[p] = Ok(NotStrict)
            /\ result[p] = NotMonotonic

\* a call has returned on a flat sequence of three or more elements
C4_Witness ==
    \E p \in Threads :
        LET s == Self(p) IN
        /\ Done(p) /\ Len(s) >= 3
        /\ \A i \in Pairs(s) : Equal(s, i)
        /\ Len(examined[p]) = Len(s) - 1

\* ---------------------------------------------------------------------------
\* C5: a call on a sequence of length 0 or 1 never enters the fold, gives no
\* window to the closure, and returns NotMonotonic.
\* ---------------------------------------------------------------------------
C5_Short ==
    \A p \in Threads :
        (pc[p] # "idle" /\ Len(Self(p)) <= 1) =>
            /\ Done(p)
            /\ examined[p] = <<>>
            /\ result[p] = NotMonotonic

\* a call on a one-element sequence has returned
C5_Witness ==
    \E p \in Threads : Done(p) /\ Len(Self(p)) = 1 /\ result[p] = NotMonotonic

\* ---------------------------------------------------------------------------
\* C6: reversal symmetry on totally ordered sequences: the classification of
\* the reversed sequence is that of the sequence with Rising and Falling
\* exchanged and the strictness kept; NotMonotonic stays NotMonotonic.
\* ---------------------------------------------------------------------------
C6_ReversalSymmetry ==
    \A p \in Threads :
        LET s == Self(p) IN
        (Done(p) /\ Total(s)) => monotonic_prop(Reverse(s)) = Flip(result[p])

\* a call has returned Falling{strict:false} on a sequence ending in a plateau
C6_Witness ==
    \E p \in Threads :
        LET s == Self(p) IN
        /\ Done(p) /\ Total(s) /\ Len(s) >= 3
        /\ Greater(s, 1) /\ Equal(s, Len(s) - 1)
        /\ result[p] = Falling(FALSE)
        /\ monotonic_prop(Reverse(s)) = Rising(FALSE)

\* ---------------------------------------------------------------------------
\* C7: no call panics, also on incomparable pairs: no unreachable!() is
\* reached, the state a pair is processed in is never Known(NotMonotonic),
\* and a returned call gives one of the values of Monotonic.
\* ---------------------------------------------------------------------------
C7_NoPanic ==
    \A p \in Threads :
        /\ pc[p] # "panicked"
        /\ (pc[p] = "fold" /\ acc[p].res = "Ok") => acc[p].val # Known(NotMonotonic)
        /\ Done(p) => result[p] \in Monotonic

\* a call has returned after the closure met an incomparable pair in a Known
\* state, with pairs left in the sequence
C7_Witness ==
    \E p \in Threads :
        LET s == Self(p) IN
        /\ Done(p) /\ acc[p] = Err(NotMonotonic)
        /\ Len(examined[p]) >= 2 /\ Len(examined[p]) < Len(s) - 1
        /\ ~Comparable(s, Len(examined[p]))

\* ---------------------------------------------------------------------------
\* C8: the result depends on the traversed elements only: two returned calls
\* over equal element sequences (whatever the array, the view, the caller and
\* the calls made before) have equal results.
\* ---------------------------------------------------------------------------
C8_Pure ==
    \A p, q \in Threads :
        (Done(p) /\ Done(q) /\ Self(p) = Self(q)) => result[p] = result[q]

\* two callers have returned, one on an array and one on the identity slice
\* of another array with the same elements, with a monotonic result
C8_Witness ==
    \E p, q \in Threads :
        /\ Done(p) /\ Done(q) /\ tgt[p] # tgt[q]
        /\ view[p] = "owned" /\ view[q] = "fwd"
        /\ Self(p) = Self(q) /\ Len(Self(p)) >= 3
        /\ result[p] = Rising(FALSE)

\* ---------------------------------------------------------------------------
\* C9: during a call and when it has returned, the array the call is on has
\* the length and the elements it had when the call started.
\* ---------------------------------------------------------------------------
C9_InputUnchanged ==
    \A p \in Threads : pc[p] \in {"fold", "done"} => arr[tgt[p]] = snap[p]

\* a call over a sequence with a falling pair has returned after two or more
\* steps
C9_Witness ==
    \E p \in Threads :
        /\ Done(p) /\ Len(examined[p]) >= 2
        /\ \E i \in Pairs(Self(p)) : i <= Len(examined[p]) /\ Greater(Self(p), i)

\* ---------------------------------------------------------------------------
\* C10: under every interleaving of the steps of concurrent calls, on the
\* same array or on different ones, each call returns the value the function
\* gives for its sequence when run alone.
\* ---------------------------------------------------------------------------
C10_Isolation ==
    \A p \in Threads : Done(p) => result[p] = monotonic_prop(Self(p))

\* one caller has returned after two steps while another caller is in the
\* middle of its fold over the same array
C10_Witness ==
    \E p, q \in Threads :
        /\ p # q /\ tgt[p] = tgt[q]
        /\ Done(p) /\ Len(examined[p]) = 2 /\ result[p] # NotMonotonic
        /\ pc[q] = "fold" /\ idx[q] = 1

\* ---------------------------------------------------------------------------
\* Vocabulary of the pass: the pair that fixes the direction and the pairs
\* that contradict it
\* ---------------------------------------------------------------------------
\* pair j is the first pair of s that is not an equal pair
FirstNonEqual(s, j) == j \in Pairs(s) /\ ~Equal(s, j) /\ \A i \in 1..(j - 1) : Equal(s, i)

\* pair k comes after the first non-equal pair and is neither equal nor in
\* the direction that pair gave (Rising if it was a < b, Falling otherwise)
Contradicts(s, k) ==
    /\ k \in Pairs(s)
    /\ ~Equal(s, k)
    /\ \E j \in 1..(k - 1) :
          /\ FirstNonEqual(s, j)
          /\ IF Less(s, j) THEN ~Less(s, k) ELSE ~Greater(s, k)

\* the first contradicting pair of s, 0 if there is none
FirstContradiction(s) ==
    IF \E k \in Pairs(s) : Contradicts(s, k)
    THEN CHOOSE k \in Pairs(s) :
            Contradicts(s, k) /\ \A i \in 1..(k - 1) : ~Contradicts(s, i)
    ELSE 0

\* ---------------------------------------------------------------------------
\* C11 (as stated): a returned call on a sequence of length n >= 2 has given
\* exactly n - 1 windows to the closure, whatever the sequence.
\* ---------------------------------------------------------------------------
C11_ExactlyAllPairs ==
    \A p \in Threads :
        (Done(p) /\ Len(Self(p)) >= 2) => Len(examined[p]) = Len(Self(p)) - 1

\* C11 (amended): a returned call on a sequence of length n >= 2 has given
\* the closure exactly n - 1 windows if no pair contradicts the direction,
\* and exactly the windows up to and including the first contradicting pair
\* otherwise.
C11_PairsExamined ==
    \A p \in Threads :
        LET s == Self(p) IN
        (Done(p) /\ Len(s) >= 2) =>
            Len(examined[p]) = IF FirstContradiction(s) = 0 THEN Len(s) - 1
                               ELSE FirstContradiction(s)

\* a call has returned after a contradiction at a pair that is not the last
C11_Witness ==
    \E p \in Threads :
        LET s == Self(p) IN
        /\ Done(p) /\ Len(s) >= 4
        /\ FirstContradiction(s) # 0 /\ FirstContradiction(s) < Len(s) - 1
        /\ Len(examined[p]) = FirstContradiction(s)

\* ---------------------------------------------------------------------------
\* C12: early exit.  A step that meets a > b in Known(Rising), or a < b in
\* Known(Falling), leaves the fold with Err(NotMonotonic); from then on the
\* call gives no further window to the closure, and all it does is return
\* NotMonotonic.
\* ---------------------------------------------------------------------------
C12_EarlyExit ==
    [][\A p \in Threads :
         /\ ( /\ pc[p] = "fold" /\ acc[p].res = "Ok"
              /\ examined'[p] # examined[p]
              /\ acc[p].val.tag = "Known"
              /\ \/ acc[p].val.m.kind = "Rising" /\ Greater(Self(p), idx[p] + 1)
                 \/ acc[p].val.m.kind = "Falling" /\ Less(Self(p), idx[p] + 1) )
            => (acc'[p] = Err(NotMonotonic) /\ pc'[p] = "fold")
         /\ (pc[p] = "fold" /\ acc[p].res = "Err")
            => /\ examined'[p] = examined[p]
               /\ idx'[p] = idx[p]
               /\ acc'[p] = acc[p]
               /\ pc'[p] \in {"fold", "done"}
               /\ pc'[p] = "done" => result'[p] = NotMonotonic
      ]_vars

\* a call has returned NotMonotonic after a rising pair met in Known(Falling),
\* with pairs of the sequence left unexamined
C12_Witness ==
    \E p \in Threads :
        LET s == Self(p)
            k == Len(examined[p]) IN
        /\ Done(p) /\ acc[p] = Err(NotMonotonic)
        /\ k >= 2 /\ k < Len(s) - 1
        /\ Greater(s, 1) /\ Less(s, k)
        /\ result[p] = NotMonotonic

\* ---------------------------------------------------------------------------
\* C13: one left-to-right pass inside the bounds.  The windows given to the
\* closure are windows 0, 1, 2, ... in this order, each once; the iterator is
\* positioned right after the last of them; and the elements a window reads
\* (i and i + 1, counted from 0) lie within 0..n - 1.
\* ---------------------------------------------------------------------------
C13_SinglePass ==
    \A p \in Threads :
        LET s == Self(p)
            k == Len(examined[p]) IN
        pc[p] \in {"fold", "done"} =>
            /\ \A j \in 1..k : examined[p][j] = j - 1
            /\ idx[p] = k
            /\ \A j \in 1..k : examined[p][j] >= 0 /\ examined[p][j] + 1 <= Len(s) - 1

\* a call has gone through all the windows of a sequence of four or more
\* elements, the last window reading the last element
C13_Witness ==
    \E p \in Threads :
        LET s == Self(p)
            k == Len(examined[p]) IN
        /\ Done(p) /\ Len(s) >= 4
        /\ k = Len(s) - 1
        /\ examined[p][k] + 1 = Len(s) - 1

\* ---------------------------------------------------------------------------
\* C14: strictness is sticky downward.  Once an equal pair has gone through
\* the closure, the running state is NotStrict, Known with strict: false, or
\* the Err of a contradiction, never a Known with strict: true, and the
\* result returned does not carry strict: true.
\* ---------------------------------------------------------------------------
StrictState(r) == r.res = "Ok" /\ r.val.tag = "Known" /\ r.val.m.strict

StrictResult(m) == m.kind \in {"Rising", "Falling"} /\ m.strict

C14_StickyDownward ==
    \A p \in Threads :
        LET s == Self(p) IN
        ( /\ pc[p] \in {"fold", "done"}
          /\ \E j \in 1..Len(examined[p]) : Equal(s, j) ) =>
            /\ ~StrictState(acc[p])
            /\ acc[p] \in {Ok(NotStrict), Ok(Known(Rising(FALSE))),
                           Ok(Known(Falling(FALSE))), Err(NotMonotonic)}
            /\ ~StrictResult(result[p])

\* a call has returned Rising{strict:false} after a rising pair, an equal
\* pair, and a rising pair at the end
C14_Witness ==
    \E p \in Threads :
        LET s == Self(p)
            k == Len(examined[p]) IN
        /\ Done(p) /\ k >= 3
        /\ Less(s, 1) /\ Equal(s, 2) /\ Less(s, k)
        /\ result[p] = Rising(FALSE)

\* ---------------------------------------------------------------------------
\* C15: direction lock.  The first non-equal pair that goes through the
\* closure fixes the direction (Rising if it is a < b, Falling if it is
\* a > b, a leading plateau included); from then on the running state is a
\* Known of that direction or the Err of a contradiction, a later pair against
\* the direction gives the Err whatever the strictness, and the result is that
\* direction or NotMonotonic.  No step takes Known(Rising) to Known(Falling)
\* or back.
\* ---------------------------------------------------------------------------
\* the direction locked by the first k pairs of s
LockedDir(s, k) ==
    IF \E j \in 1..k : FirstNonEqual(s, j) /\ Less(s, j) THEN "Rising"
    ELSE IF \E j \in 1..k : FirstNonEqual(s, j) /\ Greater(s, j) THEN "Falling"
    ELSE "None"

\* a pair among the first k, after the locking one, goes against the direction
Disagrees(s, k) ==
    \E j, i \in 1..k :
        /\ FirstNonEqual(s, j) /\ j < i
        /\ \/ Less(s, j) /\ Greater(s, i)
           \/ Greater(s, j) /\ Less(s, i)

C15_Locked ==
    \A p \in Threads :
        LET s == Self(p)
            k == Len(examined[p])
            d == LockedDir(s, k) IN
        (pc[p] \in {"fold", "done"} /\ d # "None") =>
            /\ \/ acc[p] = Err(NotMonotonic)
               \/ acc[p].res = "Ok" /\ acc[p].val.tag = "Known" /\ acc[p].val.m.kind = d
            /\ Disagrees(s, k) => acc[p] = Err(NotMonotonic)
            /\ Done(p) => result[p].kind \in {d, "NotMonotonic"}
            /\ (Done(p) /\ Disagrees(s, k)) => result[p] = NotMonotonic

C15_NoSwitch ==
    \A p \in Threads :
        ( /\ pc[p] = "fold" /\ acc[p].res = "Ok" /\ acc[p].val.tag = "Known"
          /\ acc'[p].res = "Ok" )
        => (acc'[p].val.tag = "Known" /\ acc'[p].val.m.kind = acc[p].val.m.kind)

C15_DirectionLock == [](C15_Locked) /\ [][C15_NoSwitch]_vars

\* a call has returned NotMonotonic on a sequence that starts flat, rises,
\* holds a plateau (so the state is not strict) and then falls
C15_Witness ==
    \E p \in Threads :
        LET s == Self(p)
            k == Len(examined[p]) IN
        /\ Done(p) /\ k >= 4
        /\ Equal(s, 1) /\ Less(s, 2) /\ Equal(s, 3) /\ Greater(s, k)
        /\ LockedDir(s, k) = "Rising"
        /\ result[p] = NotMonotonic

\* ---------------------------------------------------------------------------
\* C16: the running state of the code follows the transition table of the
\* specification.  The table (states Undetermined, FlatSoFar, KnownRising(s),
\* KnownFalling(s), Terminated; outcomes of a pair "lt", "eq", "gt"):
\* ---------------------------------------------------------------------------
Undetermined == [st |-> "Undetermined"]

FlatSoFar == [st |-> "FlatSoFar"]

KnownRising(strict) == [st |-> "KnownRising", strict |-> strict]

KnownFalling(strict) == [st |-> "KnownFalling", strict |-> strict]

Terminated == [st |-> "Terminated"]

SpecTable(x, o) ==
    CASE x = Undetermined ->
           IF o = "lt" THEN KnownRising(TRUE)
           ELSE IF o = "eq" THEN FlatSoFar ELSE KnownFalling(TRUE)
      [] x = FlatSoFar ->
           IF o = "lt" THEN KnownRising(FALSE)
           ELSE IF o = "eq" THEN FlatSoFar ELSE KnownFalling(FALSE)
      [] x.st = "KnownRising" ->
           IF o = "eq" THEN KnownRising(FALSE)
           ELSE IF o = "lt" THEN KnownRising(x.strict) ELSE Terminated
      [] x.st = "KnownFalling" ->
           IF o = "eq" THEN KnownFalling(FALSE)
           ELSE IF o = "gt" THEN KnownFalling(x.strict) ELSE Terminated
      [] OTHER -> Terminated

\* the outcome of pair i of s, for a comparable pair
Outcome(s, i) == IF s[i] < s[i + 1] THEN "lt" ELSE IF s[i] = s[i + 1] THEN "eq" ELSE "gt"

\* the table run over the first k pairs of s
RECURSIVE SpecRun(_, _)
SpecRun(s, k) == IF k = 0 THEN Undetermined ELSE SpecTable(SpecRun(s, k - 1), Outcome(s, k))

\* the state of the table that corresponds to an accumulator of the fold
Abs(r) ==
    IF r.res = "Err" THEN Terminated
    ELSE IF r.val = StateInit THEN Undetermined
    ELSE IF r.val = NotStrict THEN FlatSoFar
    ELSE IF r.val.m.kind = "Rising" THEN KnownRising(r.val.m.strict)
    ELSE KnownFalling(r.val.m.strict)

C16_Refinement ==
    \A p \in Threads :
        LET s == Self(p)
            k == Len(examined[p]) IN
        ( /\ pc[p] \in {"fold", "done"}
          /\ \A j \in 1..k : Comparable(s, j) ) => Abs(acc[p]) = SpecRun(s, k)

\* a call is in the fold or has returned with the table in KnownFalling(false)
\* after a leading plateau, a falling pair and an equal pair
C16_Witness ==
    \E p \in Threads :
        LET s == Self(p)
            k == Len(examined[p]) IN
        /\ pc[p] \in {"fold", "done"} /\ k >= 3
        /\ \A j \in 1..k : Comparable(s, j)
        /\ Equal(s, 1) /\ Greater(s, 2) /\ Equal(s, 3)
        /\ SpecRun(s, k) = KnownFalling(FALSE)
        /\ acc[p] = Ok(Known(Falling(FALSE)))

\* ---------------------------------------------------------------------------
\* C17: termination.  A call never gives the closure more than n - 1 windows
\* (none when n <= 1), and every call that has entered the fold returns.
\* ---------------------------------------------------------------------------
C17_Bounded ==
    \A p \in Threads :
        pc[p] \in {"fold", "done"} =>
            Len(examined[p]) <= (IF Len(Self(p)) <= 1 THEN 0 ELSE Len(Self(p)) - 1)

C17_Terminates ==
    /\ [](C17_Bounded)
    /\ \A p \in Threads : (pc[p] = "fold") ~> (Done(p) /\ result[p] \in Monotonic)

\* a call over a sequence of MaxLen elements has returned after all its pairs
C17_Witness ==
    \E p \in Threads :
        /\ Done(p) /\ Len(Self(p)) = MaxLen
        /\ Len(examined[p]) = MaxLen - 1
        /\ result[p] \in Monotonic

\* ---------------------------------------------------------------------------
\* C18: an incomparable pair (none of <, ==, > holds).  Met as the first pair
\* (state Init) it gives Known(Falling{strict:true}); met after equal pairs
\* only (state NotStrict) it gives Known(Falling{strict:false}): in both it is
\* treated as a > b is.  Met after a non-equal pair (state Known) it is a
\* contradiction and the call returns NotMonotonic.
\* ---------------------------------------------------------------------------
C18_Incomparable ==
    \A p \in Threads :
        LET s == Self(p)
            k == Len(examined[p]) IN
        ( /\ pc[p] \in {"fold", "done"}
          /\ k >= 1
          /\ ~Comparable(s, k) ) =>
            /\ k = 1 => acc[p] = Ok(Known(Falling(TRUE)))
            /\ (k > 1 /\ \A j \in 1..(k - 1) : Equal(s, j))
                  => acc[p] = Ok(Known(Falling(FALSE)))
            /\ (k = 1 \/ \A j \in 1..(k - 1) : Equal(s, j))
                  => acc[p] = Transition(IF k = 1 THEN StateInit ELSE NotStrict, 1, 0)
            /\ (\E j \in 1..(k - 1) : ~Equal(s, j))
                  => /\ acc[p] = Err(NotMonotonic)
                     /\ Done(p) => result[p] = NotMonotonic

\* a call on a sequence whose only non-equal pair is incomparable has returned
\* Falling{strict:false}, not NotMonotonic
C18_Witness ==
    \E p \in Threads :
        LET s == Self(p) IN
        /\ Done(p) /\ Len(s) = 3
        /\ Equal(s, 1) /\ ~Comparable(s, 2)
        /\ result[p] = Falling(FALSE)

====
